---- MODULE Spec2Model ----
(***************************************************************************)
(* SSD1351 OLED driver: the Display container (src/src/display.rs) and the *)
(* GraphicsMode drawing surface (src/src/mode/graphics.rs).                *)
(*                                                                         *)
(* The bus is modelled as a log of the writes the last operation attempted *)
(* on it; a write either reaches the controller or fails as a whole.  An   *)
(* operation is one atomic step: its whole sequence of bus writes, cut at  *)
(* the first failing write, together with its effect on the stored state.  *)
(***************************************************************************)
EXTENDS Integers, Sequences, FiniteSets, TLC

VARIABLES
    buffered,          \* cargo feature "buffered" of the build
    display_size,      \* Display.display_size
    display_rotation,  \* Display.display_rotation
    buffer,            \* GraphicsMode.buffer (the shadow buffer)
    given_len,         \* length of the buffer handed to GraphicsMode::new
    dropped,           \* drop_buffer was called
    call,              \* the last operation called, with its arguments
    log,               \* the bus writes that operation attempted, in order
    bus_failed,        \* the last write of log failed (it is the last attempt)
    outcome,           \* "Ok", "Err" (a bus error returned), "PinErr" (a pin
                       \* error returned) or "Panic"
    pin_log,           \* what that operation did with the reset pin and the delay
    remap,             \* last SetRemap flags the controller received
    display_on,        \* last DisplayOn parameter the controller received
    init_ok,           \* init returned Ok and nothing failed since
    nOps               \* number of operations performed

vars == <<buffered, display_size, display_rotation, buffer, given_len, dropped, call,
          log, bus_failed, outcome, pin_log, remap, display_on, init_ok, nOps>>

----------------------------------------------------------------------------
(* Bounds of the model *)

\* operations performed in one run
MaxOps == 3
\* a failing bus write is one of the first MaxFailHead writes of an operation ...
MaxFailHead == 21
\* ... or one of its last MaxFailTail writes
MaxFailTail == 2

----------------------------------------------------------------------------
(* Integer helpers *)

Min(a, b) == IF a <= b THEN a ELSE b
Max(a, b) == IF a >= b THEN a ELSE b

\* `v as u8`
AsU8(v) == v % 256

\* u8::wrapping_sub in place of saturating_sub
WrappingSub(a, b) == (a - b) % 256

\* u8::saturating_sub
SaturatingSub(a, b) == IF a >= b THEN a - b ELSE 0

\* a bool parameter as it is carried in a command
B(flag) == IF flag THEN 1 ELSE 0

\* (color >> 8) as u8 and color as u8
HiByte(color) == AsU8(color \div 256)
LoByte(color) == AsU8(color)

----------------------------------------------------------------------------
(* Byte slices.  A slice is [len, rest, upd]: byte i is upd[i] where upd    *)
(* is defined and rest everywhere else; indices start at 0.                *)

NoBytes == [i \in {} |-> 0]

EmptySlice == [len |-> 0, rest |-> 0, upd |-> NoBytes]

\* a: &[u8], a[i]
At(a, i) == IF i \in DOMAIN a.upd THEN a.upd[i] ELSE a.rest

\* a[i] = v (i < a.len is the caller's check)
Put(a, i, v) ==
    [a EXCEPT !.upd =
        IF v = a.rest
        THEN [j \in (DOMAIN a.upd) \ {i} |-> a.upd[j]]
        ELSE [j \in (DOMAIN a.upd) \cup {i} |-> IF j = i THEN v ELSE a.upd[j]]]

\* &a[from..to]
SubSlice(a, from, to) ==
    [len  |-> to - from,
     rest |-> a.rest,
     upd  |-> [j \in {i - from : i \in {k \in DOMAIN a.upd : from <= k /\ k < to}}
                 |-> a.upd[j + from]]]

\* &[b0, b1, ...]
Bytes(s) ==
    [len  |-> Len(s),
     rest |-> 0,
     upd  |-> [j \in {i - 1 : i \in {k \in 1..Len(s) : s[k] # 0}} |-> s[j + 1]]]

\* the bytes of a slice as a sequence (short slices only)
AsSeq(a) == [i \in 1..a.len |-> At(a, i - 1)]

----------------------------------------------------------------------------
(* Properties *)

DisplaySizes == {"Display128x128", "Display128x96"}

Rotations == {"Rotate0", "Rotate90", "Rotate180", "Rotate270"}

\* DisplaySize::dimensions: (width, height)
Dimensions(size) ==
    IF size = "Display128x128" THEN <<128, 128>> ELSE <<128, 96>>

----------------------------------------------------------------------------
(* Bus writes.  A plan is a sequence of runs [w, n]: the write w, n times. *)

\* Command::X(args).send(iface)
Cmd(name, args) == [kind |-> "cmd", name |-> name, args |-> args, bytes |-> EmptySlice]

\* iface.send_data(DataFormat::U8(bytes))
Data(bytes) == [kind |-> "data", name |-> "Data", args |-> <<>>, bytes |-> bytes]

Once(w) == <<[w |-> w, n |-> 1]>>

Times(w, n) == IF n = 0 THEN <<>> ELSE <<[w |-> w, n |-> n]>>

RECURSIVE Count(_)
Count(p) == IF p = <<>> THEN 0 ELSE Head(p).n + Count(Tail(p))

\* the first k writes of a plan
RECURSIVE Take(_, _)
Take(p, k) ==
    IF k = 0 \/ p = <<>> THEN <<>>
    ELSE IF Head(p).n <= k THEN <<Head(p)>> \o Take(Tail(p), k - Head(p).n)
    ELSE <<[Head(p) EXCEPT !.n = k]>>

\* where the bus may fail during a plan of n writes: 0 is "nowhere"
FailPoints(n) ==
    {0} \cup (1..Min(n, MaxFailHead)) \cup (Max(1, n - MaxFailTail + 1)..n)

\* the writes attempted when the f-th write fails (f = 0: none fails)
Attempted(plan, f) == IF f = 0 THEN plan ELSE Take(plan, f)

\* the writes that reached the controller
Received(l, failed) == IF failed THEN Take(l, Count(l) - 1) ELSE l

\* the arguments of the last command `name` in l, or dflt
RECURSIVE LastArgs(_, _, _)
LastArgs(l, name, dflt) ==
    IF l = <<>> THEN dflt
    ELSE IF l[Len(l)].w.name = name THEN l[Len(l)].w.args
    ELSE LastArgs(SubSeq(l, 1, Len(l) - 1), name, dflt)

----------------------------------------------------------------------------
(* Display (src/src/display.rs) *)

\* Display::set_draw_area
SetDrawArea(start, end) ==
    Once(Cmd("Column", <<start[1], SaturatingSub(end[1], 1)>>))
    \o Once(Cmd("Row", <<start[2], SaturatingSub(end[2], 1)>>))
    \o Once(Cmd("WriteRam", <<>>))

\* set_rotation with the flags of Rotate180 and Rotate270 exchanged
RemapOfExchanged(rot) ==
    CASE rot = "Rotate0"   -> Cmd("SetRemap", <<B(FALSE), B(FALSE), B(TRUE)>>)
      [] rot = "Rotate90"  -> Cmd("SetRemap", <<B(TRUE), B(TRUE), B(TRUE)>>)
      [] rot = "Rotate180" -> Cmd("SetRemap", <<B(TRUE), B(FALSE), B(FALSE)>>)
      [] rot = "Rotate270" -> Cmd("SetRemap", <<B(FALSE), B(TRUE), B(FALSE)>>)

\* set_rotation with the flags of Rotate90 and Rotate270 exchanged
RemapOfMirrored(rot) ==
    CASE rot = "Rotate0"   -> Cmd("SetRemap", <<B(FALSE), B(FALSE), B(TRUE)>>)
      [] rot = "Rotate90"  -> Cmd("SetRemap", <<B(TRUE), B(FALSE), B(FALSE)>>)
      [] rot = "Rotate180" -> Cmd("SetRemap", <<B(FALSE), B(TRUE), B(FALSE)>>)
      [] rot = "Rotate270" -> Cmd("SetRemap", <<B(TRUE), B(TRUE), B(TRUE)>>)

\* the remap command Display::set_rotation sends
RemapOf(rot) ==
    CASE rot = "Rotate0"   -> Cmd("SetRemap", <<B(FALSE), B(FALSE), B(TRUE)>>)
      [] rot = "Rotate90"  -> Cmd("SetRemap", <<B(TRUE), B(TRUE), B(TRUE)>>)
      [] rot = "Rotate180" -> Cmd("SetRemap", <<B(FALSE), B(TRUE), B(FALSE)>>)
      [] rot = "Rotate270" -> Cmd("SetRemap", <<B(TRUE), B(FALSE), B(FALSE)>>)

\* clear stopping one pixel short of the panel
DisplayClearOneShort(size) ==
    LET display_width  == Dimensions(size)[1]
        display_height == Dimensions(size)[2]
    IN  SetDrawArea(<<0, 0>>, <<display_width, display_height>>)
        \o Times(Data(Bytes(<<0, 0>>)), display_height * display_width - 1)

\* Display::clear
DisplayClear(size) ==
    LET display_width  == Dimensions(size)[1]
        display_height == Dimensions(size)[2]
    IN  SetDrawArea(<<0, 0>>, <<display_width, display_height>>)
        \o Times(Data(Bytes(<<0, 0>>)), display_height * display_width)

\* get_dimensions without the exchange at Rotate90 and Rotate270
GetDimensionsUnrotated(size, rot) == Dimensions(size)

\* Display::get_dimensions
GetDimensions(size, rot) ==
    LET w == Dimensions(size)[1]
        h == Dimensions(size)[2]
    IN  IF rot \in {"Rotate0", "Rotate180"} THEN <<w, h>> ELSE <<h, w>>

\* the commands of Display::init before the rotation is applied
InitCommands(size) ==
    LET display_height == Dimensions(size)[2]
    IN  Once(Cmd("CommandLock", <<18>>))
        \o Once(Cmd("CommandLock", <<177>>))
        \o Once(Cmd("DisplayOn", <<B(FALSE)>>))
        \o Once(Cmd("ClockDiv", <<241>>))
        \o Once(Cmd("MuxRatio", <<display_height - 1>>))
        \o Once(Cmd("DisplayOffset", <<0>>))
        \o Once(Cmd("StartLine", <<0>>))
        \o Once(Cmd("SetGpio", <<0>>))
        \o Once(Cmd("FunctionSelect", <<1>>))
        \o Once(Cmd("SetVsl", <<>>))
        \o Once(Cmd("Contrast", <<143>>))
        \o Once(Cmd("ContrastCurrent", <<15>>))
        \o Once(Cmd("PreCharge", <<50>>))
        \o Once(Cmd("PreCharge2", <<1>>))
        \o Once(Cmd("Vcomh", <<5>>))
        \o Once(Cmd("Invert", <<B(FALSE)>>))

\* init clearing the framebuffer before it applies the rotation
InitPlanClearFirst(size, rot) ==
    InitCommands(size)
    \o DisplayClear(size)
    \o Once(RemapOf(rot))
    \o Once(Cmd("DisplayOn", <<B(TRUE)>>))

\* the bus writes of Display::init, all succeeding
InitPlan(size, rot) ==
    InitCommands(size)
    \o Once(RemapOf(rot))
    \o DisplayClear(size)
    \o Once(Cmd("DisplayOn", <<B(TRUE)>>))

\* how Display::init ends when its f-th write fails: set_rotation's result is
\* unwrapped, every other result is propagated with `?`
InitOutcome(size, f) ==
    IF f = 0 THEN "Ok"
    ELSE IF f = Count(InitCommands(size)) + 1 THEN "Panic"
    ELSE "Err"

----------------------------------------------------------------------------
(* State *)

\* no operation is in progress or waiting to be observed.  le, of a flush_chunk
\* call, says that the target stores a u16 low byte first
NoCall == [op |-> "-", a |-> <<>>, cs |-> <<>>, rot |-> "-", le |-> TRUE]

\* the controller's registers after the writes of l, from (r, d)
RemapAfter(l, failed, r) == LastArgs(Received(l, failed), "SetRemap", r)
DisplayOnAfter(l, failed, d) == LastArgs(Received(l, failed), "DisplayOn", d)

\* lengths of the buffers handed to GraphicsMode::new, which takes the slice
\* as it is: the caller sizes it to two bytes per pixel of the panel
BufferLens(size) == {2 * Dimensions(size)[1] * Dimensions(size)[2]}

\* the content of the buffer handed to GraphicsMode::new: one byte, repeated
InitFills == {0, 165}

Init ==
    /\ buffered \in BOOLEAN
    /\ display_size \in DisplaySizes
    /\ display_rotation \in Rotations
    /\ given_len \in IF buffered THEN BufferLens(display_size) ELSE {0}
    /\ \E fill \in IF buffered THEN InitFills ELSE {0} :
          buffer = [len |-> given_len, rest |-> fill, upd |-> NoBytes]
    /\ dropped = FALSE
    /\ call = NoCall
    /\ log = <<>>
    /\ bus_failed = FALSE
    /\ outcome = "Ok"
    /\ pin_log = <<>>
    /\ remap = <<>>
    /\ display_on = <<>>
    /\ init_ok = FALSE
    /\ nOps = 0

\* the caller may start an operation: the program did not panic, the last
\* operation's result was taken, and the run is within its bound
Running == outcome # "Panic" /\ call = NoCall /\ nOps < MaxOps

\* what every operation on the bus does to the bus log and the controller; it
\* has no access to the reset pin
Wire(plan, f) ==
    /\ pin_log' = <<>>
    /\ log' = Attempted(plan, f)
    /\ bus_failed' = (f # 0)
    /\ remap' = RemapAfter(log', bus_failed', remap)
    /\ display_on' = DisplayOnAfter(log', bus_failed', display_on)
    /\ nOps' = nOps + 1

----------------------------------------------------------------------------
(* Operations *)

\* GraphicsMode::init -> Display::init
DoInit ==
    /\ Running
    /\ \E f \in FailPoints(Count(InitPlan(display_size, display_rotation))) :
          /\ Wire(InitPlan(display_size, display_rotation), f)
          /\ outcome' = InitOutcome(display_size, f)
          /\ init_ok' = (f = 0)
    /\ call' = [NoCall EXCEPT !.op = "init"]
    /\ UNCHANGED <<buffered, display_size, display_rotation, buffer, given_len, dropped>>

\* set_rotation storing the rotation once the remap is sent
StoredRotationIfSent(old, rot, f) == IF f = 0 THEN rot ELSE old

\* set_rotation: the stored rotation afterwards; the assignment comes before
\* the send, whose f-th write fails
StoredRotation(old, rot, f) == rot

\* GraphicsMode::set_rotation -> Display::set_rotation
DoSetRotation ==
    /\ Running
    /\ \E rot \in Rotations :
          /\ call' = [NoCall EXCEPT !.op = "set_rotation", !.rot = rot]
          /\ \E f \in FailPoints(1) :
                /\ display_rotation' = StoredRotation(display_rotation, rot, f)
                /\ Wire(Once(RemapOf(rot)), f)
                /\ outcome' = IF f = 0 THEN "Ok" ELSE "Err"
                /\ init_ok' = (init_ok /\ f = 0)
    /\ UNCHANGED <<buffered, display_size, buffer, given_len, dropped>>

\* the u8 values set_draw_area is called with
StartSamples == {<<0, 0>>, <<10, 255>>}
EndSamples == {0, 1, 128, 255}

\* Display::set_draw_area, called on the Display
DoSetDrawArea ==
    /\ Running
    /\ \E start \in StartSamples, ex \in EndSamples, ey \in EndSamples :
          /\ call' = [NoCall EXCEPT !.op = "set_draw_area",
                                    !.a = <<start[1], start[2], ex, ey>>]
          /\ \E f \in FailPoints(3) :
                /\ Wire(SetDrawArea(start, <<ex, ey>>), f)
                /\ outcome' = IF f = 0 THEN "Ok" ELSE "Err"
    /\ UNCHANGED <<buffered, display_size, display_rotation, buffer, given_len,
                   dropped, init_ok>>

\* GraphicsMode::get_dimensions -> Display::get_dimensions; the pair returned
\* is kept in call.a
DoGetDimensions ==
    /\ Running
    /\ call' = [NoCall EXCEPT !.op = "get_dimensions",
                              !.a = GetDimensions(display_size, display_rotation)]
    /\ Wire(<<>>, 0)
    /\ outcome' = "Ok"
    /\ UNCHANGED <<buffered, display_size, display_rotation, buffer, given_len,
                   dropped, init_ok>>

\* Display::clear, called on the Display
DoDisplayClear ==
    /\ Running
    /\ call' = [NoCall EXCEPT !.op = "display_clear"]
    /\ \E f \in FailPoints(Count(DisplayClear(display_size))) :
          /\ Wire(DisplayClear(display_size), f)
          /\ outcome' = IF f = 0 THEN "Ok" ELSE "Err"
    /\ UNCHANGED <<buffered, display_size, display_rotation, buffer, given_len,
                   dropped, init_ok>>

----------------------------------------------------------------------------
(* Rectangle, as GraphicsMode uses it: [x, y, w, h] *)

Rect(x, y, w, h) == [x |-> x, y |-> y, w |-> w, h |-> h]

\* Rectangle::bottom_right().unwrap_or(top_left)
BottomRightOr(r) ==
    IF r.w = 0 \/ r.h = 0 THEN <<r.x, r.y>> ELSE <<r.x + r.w - 1, r.y + r.h - 1>>

\* Rectangle::contains
Contains(r, px, py) ==
    /\ r.w # 0 /\ r.h # 0
    /\ r.x <= px /\ px < r.x + r.w
    /\ r.y <= py /\ py < r.y + r.h

----------------------------------------------------------------------------
(* GraphicsMode (src/src/mode/graphics.rs) *)

\* OriginDimensions::size
Size(size) == <<Dimensions(size)[1], Dimensions(size)[2]>>

\* Dimensions::bounding_box: Rectangle::new(Point::zero(), self.size())
BoundingBox(size) == Rect(0, 0, Size(size)[1], Size(size)[2])

\* the row stride of the buffered set_pixel
PixelStride == 128

\* the buffer index with x and y exchanged
PixelIndexTransposed(x, y) == (x * PixelStride + y) * 2

\* the buffer index of the buffered set_pixel
PixelIndex(x, y) == (y * PixelStride + x) * 2

\* buffered set_pixel on buffer b: the buffer afterwards and whether an index
\* was out of bounds (the bounds check of the first store, then of the second)
BufferedSetPixel(b, x, y, color) ==
    LET i == PixelIndex(x, y)
    IN  IF i >= b.len THEN [buf |-> b, panic |-> TRUE]
        ELSE IF i + 1 >= b.len
             THEN [buf |-> Put(b, i, HiByte(color)), panic |-> TRUE]
        ELSE [buf |-> Put(Put(b, i, HiByte(color)), i + 1, LoByte(color)),
              panic |-> FALSE]

\* the bus writes of the unbuffered set_pixel
UnbufferedSetPixel(size, rot, x, y, color) ==
    LET display_width  == Dimensions(size)[1]
        display_height == Dimensions(size)[2]
        nx == IF rot \in {"Rotate0", "Rotate180"} THEN x ELSE y
        ny == IF rot \in {"Rotate0", "Rotate180"} THEN y ELSE x
    IN  SetDrawArea(<<AsU8(nx), AsU8(ny)>>, <<display_width, display_height>>)
        \o Once(Data(Bytes(<<HiByte(color), LoByte(color)>>)))

\* flush streaming the buffer without setting the draw area
FlushPlanNoDrawArea(b, size) == Once(Data(b))

\* the bus writes of flush
FlushPlan(b, size) ==
    LET display_width  == Dimensions(size)[1]
        display_height == Dimensions(size)[2]
    IN  SetDrawArea(<<0, 0>>, <<display_width, display_height>>)
        \o Once(Data(b))

\* the start of the row without the area's first column
RowStartAtColumn0(size, area, row) == ((area.y + row) * Dimensions(size)[1]) * 2

\* flush_area: where row number `row` of the area starts in the buffer
RowStart(size, area, row) == ((area.y + row) * Dimensions(size)[1] + area.x) * 2

\* flush_area: the slice of row number `row` is within the buffer
RowInBuffer(b, size, area, row) ==
    RowStart(size, area, row) + 2 * area.w <= b.len

\* flush_area: the bus writes of row number `row`
FlushRow(b, size, area, row) ==
    LET row_index == area.y + row
        bottom_right == BottomRightOr(area)
        row_start == RowStart(size, area, row)
    IN  SetDrawArea(<<AsU8(area.x), AsU8(row_index)>>,
                    <<AsU8(bottom_right[1]) + 1, AsU8(row_index) + 1>>)
        \o (IF RowInBuffer(b, size, area, row)
            THEN Once(Data(SubSlice(b, row_start, row_start + 2 * area.w)))
            ELSE <<>>)

\* flush_area: the bus writes of rows number row .. area.h - 1; the loop ends
\* at the first row whose slice is not within the buffer
RECURSIVE FlushRows(_, _, _, _)
FlushRows(b, size, area, row) ==
    IF row >= area.h THEN <<>>
    ELSE FlushRow(b, size, area, row)
         \o (IF RowInBuffer(b, size, area, row)
             THEN FlushRows(b, size, area, row + 1)
             ELSE <<>>)

FlushAreaPlan(b, size, area) == FlushRows(b, size, area, 0)

\* flush_area: slicing some row panics
FlushAreaSlicePanics(b, size, area) ==
    \E row \in 0..(area.h - 1) : ~RowInBuffer(b, size, area, row)

\* Rectangle::intersection
Intersection(a, b) ==
    LET abr == BottomRightOr(a)
        bbr == BottomRightOr(b)
        aZero == a.w = 0 \/ a.h = 0
        bZero == b.w = 0 \/ b.h = 0
        left == Max(a.x, b.x)
        top == Max(a.y, b.y)
        right == Min(abr[1], bbr[1])
        bottom == Min(abr[2], bbr[2])
    IN  IF ~aZero /\ ~bZero
        THEN IF left <= right /\ top <= bottom
             THEN Rect(left, top, right - left + 1, bottom - top + 1)
             ELSE Rect(0, 0, 0, 0)
        ELSE IF aZero /\ ~bZero
        THEN IF Contains(b, a.x, a.y) THEN a ELSE Rect(0, 0, 0, 0)
        ELSE IF ~aZero /\ bZero
        THEN IF Contains(a, b.x, b.y) THEN b ELSE Rect(0, 0, 0, 0)
        ELSE Rect(0, 0, 0, 0)

\* Rectangle::points: the points of r, row by row
Points(r) ==
    IF r.w = 0 \/ r.h = 0 THEN <<>>
    ELSE [i \in 1..(r.w * r.h) |->
             <<r.x + ((i - 1) % r.w), r.y + ((i - 1) \div r.w)>>]

\* flush_chunk: the chunk's u16s viewed as bytes in memory
RECURSIVE ChunkAsBytes(_, _)
ChunkAsBytes(chunk, le) ==
    IF chunk = <<>> THEN <<>>
    ELSE (IF le THEN <<LoByte(Head(chunk)), HiByte(Head(chunk))>>
                ELSE <<HiByte(Head(chunk)), LoByte(Head(chunk))>>)
         \o ChunkAsBytes(Tail(chunk), le)

\* the bus writes of flush_chunk
FlushChunkPlan(chunk, chunk_area, le) ==
    LET bottom_right == BottomRightOr(chunk_area)
    IN  SetDrawArea(<<AsU8(chunk_area.x), AsU8(chunk_area.y)>>,
                    <<AsU8(bottom_right[1]) + 1, AsU8(bottom_right[2]) + 1>>)
        \o Once(Data(Bytes(ChunkAsBytes(chunk, le))))

\* get_buffer: one of its two assertions fails; whether the byte buffer
\* starts at an address aligned for u16 is the caller's and the build's doing
GetBufferPanics(b, aligned) == b.len % 2 # 0 \/ ~aligned

\* calculate_buffer_index
CalculateBufferIndex(x, y, width) == y * width + x

\* view[i] = v on the &mut [u16] view get_buffer returns on the byte buffer b:
\* the u16 is stored in the byte order of the target, le saying that it is
\* low byte first; the view has b.len / 2 elements and the store is checked
StoreU16(b, i, v, le) ==
    IF i >= b.len \div 2 THEN [buf |-> b, panic |-> TRUE]
    ELSE [buf |-> Put(Put(b, 2 * i, IF le THEN LoByte(v) ELSE HiByte(v)),
                      2 * i + 1, IF le THEN HiByte(v) ELSE LoByte(v)),
          panic |-> FALSE]

\* draw_iter without a buffer: the bus writes for the pixels inside the
\* bounding box
RECURSIVE DrawIterPlan(_, _, _)
DrawIterPlan(size, rot, pixels) ==
    IF pixels = <<>> THEN <<>>
    ELSE LET p == Head(pixels)
         IN  (IF Contains(BoundingBox(size), p.x, p.y)
              THEN UnbufferedSetPixel(size, rot, p.x, p.y, p.c)
              ELSE <<>>)
             \o DrawIterPlan(size, rot, Tail(pixels))

\* draw_iter with a buffer: set_pixel for the pixels inside the bounding box,
\* up to the first one that panics
RECURSIVE DrawIterBuffer(_, _, _)
DrawIterBuffer(b, size, pixels) ==
    IF pixels = <<>> THEN [buf |-> b, panic |-> FALSE]
    ELSE LET p == Head(pixels)
         IN  IF ~Contains(BoundingBox(size), p.x, p.y)
             THEN DrawIterBuffer(b, size, Tail(pixels))
             ELSE LET r == BufferedSetPixel(b, p.x, p.y, p.c)
                  IN  IF r.panic THEN r
                      ELSE DrawIterBuffer(r.buf, size, Tail(pixels))

\* fill_contiguous: the colours that are sent, those zipped with a point of
\* area inside drawable_area
RECURSIVE FillColors(_, _, _)
FillColors(points, colors, drawable_area) ==
    IF points = <<>> \/ colors = <<>> THEN <<>>
    ELSE (IF Contains(drawable_area, Head(points)[1], Head(points)[2])
          THEN Once(Data(Bytes(<<HiByte(Head(colors)), LoByte(Head(colors))>>)))
          ELSE <<>>)
         \o FillColors(Tail(points), Tail(colors), drawable_area)

\* fill_contiguous without the exchange of the axes at Rotate90 and Rotate270
FillContiguousPlanUnswapped(size, rot, area, colors) ==
    LET drawable_area == Intersection(area, BoundingBox(size))
        sx == AsU8(drawable_area.x)
        sy == AsU8(drawable_area.y)
        ex == AsU8(drawable_area.x + drawable_area.w)
        ey == AsU8(drawable_area.y + drawable_area.h)
    IN  SetDrawArea(<<sx, sy>>, <<ex, ey>>)
        \o FillColors(Points(area), colors, drawable_area)

\* the bus writes of the unbuffered fill_contiguous
FillContiguousPlan(size, rot, area, colors) ==
    LET drawable_area == Intersection(area, BoundingBox(size))
        sx == AsU8(drawable_area.x)
        sy == AsU8(drawable_area.y)
        ex == AsU8(drawable_area.x + drawable_area.w)
        ey == AsU8(drawable_area.y + drawable_area.h)
    IN  (IF rot \in {"Rotate0", "Rotate180"}
         THEN SetDrawArea(<<sx, sy>>, <<ex, ey>>)
         ELSE SetDrawArea(<<sy, sx>>, <<ey, ex>>))
        \o FillColors(Points(area), colors, drawable_area)

----------------------------------------------------------------------------
(* Inputs of the drawing operations *)

\* 0xF800 and 0x1234
Colors == {63488, 4660}

\* (x, y) given to set_pixel: inside both panels, inside 128x128 only, the
\* last pixel of 128x96, and three outside every panel
PixelPoints == {<<10, 20>>, <<5, 100>>, <<127, 95>>, <<128, 0>>, <<0, 128>>, <<300, 7>>}

\* rectangles given to flush_area
AreaSamples ==
    {Rect(9, 20, 2, 2), Rect(9, 20, 0, 2), Rect(9, 20, 2, 0), Rect(0, 0, 128, 1),
     Rect(126, 94, 2, 2), Rect(0, 96, 1, 1)}

\* (chunk, chunk_area) given to flush_chunk
ChunkSamples ==
    {[chunk |-> <<63488, 4660>>, area |-> Rect(3, 2, 2, 1)],
     [chunk |-> <<4660>>, area |-> Rect(127, 95, 1, 1)],
     [chunk |-> <<>>, area |-> Rect(0, 0, 0, 0)]}

\* (x, y, color) stored through the view of get_buffer
ViewSamples == {<<10, 20, 4660>>}

\* pixels given to draw_iter
Pixel(x, y, c) == [x |-> x, y |-> y, c |-> c]
DrawPixels ==
    {Pixel(10, 20, 63488), Pixel(5, 100, 4660), Pixel(100, 50, 4660),
     Pixel(128, 0, 4660)}
DrawLists == UNION {[1..n -> DrawPixels] : n \in 0..2}

\* (area, colors) given to fill_contiguous
FillSamples ==
    {[area |-> Rect(3, 2, 2, 2), colors |-> <<63488, 4660, 4660, 63488>>],
     [area |-> Rect(126, 94, 3, 3),
      colors |-> <<63488, 4660, 4660, 63488, 63488, 4660, 4660, 63488, 4660>>],
     [area |-> Rect(3, 2, 2, 2), colors |-> <<4660>>],
     [area |-> Rect(3, 2, 0, 2), colors |-> <<4660>>],
     [area |-> Rect(200, 2, 2, 1), colors |-> <<4660, 63488>>]}

RECURSIVE Flatten(_)
Flatten(pixels) ==
    IF pixels = <<>> THEN <<>>
    ELSE <<Head(pixels).x, Head(pixels).y>> \o Flatten(Tail(pixels))

PixelColors(pixels) == [i \in 1..Len(pixels) |-> pixels[i].c]

----------------------------------------------------------------------------
(* Operations of GraphicsMode *)

Frame == UNCHANGED <<buffered, display_size, display_rotation, given_len,
                     init_ok>>

\* drop_buffer leaving the buffer in place
DroppedBufferKept == buffer

\* drop_buffer: self.buffer = &mut []
DroppedBuffer == EmptySlice

\* the bus result propagated with `?` instead
Propagated(f) == IF f = 0 THEN "Ok" ELSE "Err"

\* every bus result is unwrapped: a failing write panics
Unwrapped(f) == IF f = 0 THEN "Ok" ELSE "Panic"

\* set_pixel, not(feature = "buffered")
DoSetPixelUnbuffered ==
    /\ Running /\ ~buffered
    /\ \E pt \in PixelPoints, color \in Colors :
          /\ call' = [NoCall EXCEPT !.op = "set_pixel", !.a = <<pt[1], pt[2]>>,
                                    !.cs = <<color>>]
          /\ LET plan == UnbufferedSetPixel(display_size, display_rotation,
                                            pt[1], pt[2], color)
             IN  \E f \in FailPoints(Count(plan)) :
                    /\ Wire(plan, f)
                    /\ outcome' = Unwrapped(f)
    /\ UNCHANGED <<buffer, dropped>>
    /\ Frame

\* set_pixel, feature = "buffered"
DoSetPixelBuffered ==
    /\ Running /\ buffered
    /\ \E pt \in PixelPoints, color \in Colors :
          /\ call' = [NoCall EXCEPT !.op = "set_pixel", !.a = <<pt[1], pt[2]>>,
                                    !.cs = <<color>>]
          /\ LET r == BufferedSetPixel(buffer, pt[1], pt[2], color)
             IN  /\ buffer' = r.buf
                 /\ outcome' = IF r.panic THEN "Panic" ELSE "Ok"
          /\ Wire(<<>>, 0)
    /\ UNCHANGED dropped
    /\ Frame

\* clear, not(feature = "buffered")
DoClearUnbuffered ==
    /\ Running /\ ~buffered
    /\ call' = [NoCall EXCEPT !.op = "clear"]
    /\ \E f \in FailPoints(Count(DisplayClear(display_size))) :
          /\ Wire(DisplayClear(display_size), f)
          /\ outcome' = Unwrapped(f)
    /\ UNCHANGED <<buffer, dropped>>
    /\ Frame

\* the zeroing loop ending one byte early
ZeroedButLast(b) ==
    [len  |-> b.len,
     rest |-> 0,
     upd  |-> IF b.len > 0 /\ At(b, b.len - 1) # 0
              THEN (b.len - 1) :> At(b, b.len - 1)
              ELSE NoBytes]

\* the buffer after the zeroing loop of the buffered clear
Zeroed(b) == [len |-> b.len, rest |-> 0, upd |-> NoBytes]

\* clear, feature = "buffered"
DoClearBuffered ==
    /\ Running /\ buffered
    /\ \E flush \in BOOLEAN :
          /\ call' = [NoCall EXCEPT !.op = "clear", !.a = <<B(flush)>>]
          /\ buffer' = Zeroed(buffer)
          /\ LET plan == IF flush THEN FlushPlan(buffer', display_size) ELSE <<>>
             IN  \E f \in FailPoints(Count(plan)) :
                    /\ Wire(plan, f)
                    /\ outcome' = Unwrapped(f)
    /\ UNCHANGED dropped
    /\ Frame

\* flush
DoFlush ==
    /\ Running /\ buffered
    /\ call' = [NoCall EXCEPT !.op = "flush"]
    /\ \E f \in FailPoints(Count(FlushPlan(buffer, display_size))) :
          /\ Wire(FlushPlan(buffer, display_size), f)
          /\ outcome' = Unwrapped(f)
    /\ UNCHANGED <<buffer, dropped>>
    /\ Frame

\* flush_area
DoFlushArea ==
    /\ Running /\ buffered
    /\ \E area \in AreaSamples :
          /\ call' = [NoCall EXCEPT !.op = "flush_area",
                                    !.a = <<area.x, area.y, area.w, area.h>>]
          /\ LET plan == FlushAreaPlan(buffer, display_size, area)
             IN  \E f \in FailPoints(Count(plan)) :
                    /\ Wire(plan, f)
                    /\ outcome' =
                          IF f = 0 /\ FlushAreaSlicePanics(buffer, display_size, area)
                          THEN "Panic" ELSE Unwrapped(f)
    /\ UNCHANGED <<buffer, dropped>>
    /\ Frame

\* flush_chunk
DoFlushChunk ==
    /\ Running /\ buffered
    /\ \E s \in ChunkSamples, le \in BOOLEAN :
          /\ call' = [NoCall EXCEPT !.op = "flush_chunk",
                                    !.a = <<s.area.x, s.area.y, s.area.w, s.area.h>>,
                                    !.cs = s.chunk, !.le = le]
          /\ LET plan == FlushChunkPlan(s.chunk, s.area, le)
             IN  \E f \in FailPoints(Count(plan)) :
                    /\ Wire(plan, f)
                    /\ outcome' = Unwrapped(f)
    /\ UNCHANGED <<buffer, dropped>>
    /\ Frame

\* get_buffer, and the caller storing map_to_buffer_element(color), the raw
\* u16 of the colour, at calculate_buffer_index(point, size) of the view
DoGetBuffer ==
    /\ Running /\ buffered
    /\ \E s \in ViewSamples, le \in BOOLEAN, aligned \in BOOLEAN :
          /\ call' = [NoCall EXCEPT !.op = "get_buffer", !.a = <<s[1], s[2]>>,
                                    !.cs = <<s[3]>>, !.le = le]
          /\ LET i == CalculateBufferIndex(s[1], s[2], Size(display_size)[1])
                 r == StoreU16(buffer, i, s[3], le)
             IN  IF GetBufferPanics(buffer, aligned)
                 THEN buffer' = buffer /\ outcome' = "Panic"
                 ELSE buffer' = r.buf /\ outcome' = IF r.panic THEN "Panic" ELSE "Ok"
    /\ Wire(<<>>, 0)
    /\ UNCHANGED dropped
    /\ Frame

\* drop_buffer
DoDropBuffer ==
    /\ Running /\ buffered
    /\ call' = [NoCall EXCEPT !.op = "drop_buffer"]
    /\ buffer' = DroppedBuffer
    /\ dropped' = TRUE
    /\ Wire(<<>>, 0)
    /\ outcome' = "Ok"
    /\ Frame

\* draw_iter
DoDrawIter ==
    /\ Running
    /\ \E pixels \in DrawLists :
          /\ call' = [NoCall EXCEPT !.op = "draw_iter", !.a = Flatten(pixels),
                                    !.cs = PixelColors(pixels)]
          /\ IF buffered
             THEN LET r == DrawIterBuffer(buffer, display_size, pixels)
                  IN  /\ buffer' = r.buf
                      /\ outcome' = IF r.panic THEN "Panic" ELSE "Ok"
                      /\ Wire(<<>>, 0)
             ELSE LET plan == DrawIterPlan(display_size, display_rotation, pixels)
                  IN  /\ UNCHANGED buffer
                      /\ \E f \in FailPoints(Count(plan)) :
                            /\ Wire(plan, f)
                            /\ outcome' = Unwrapped(f)
    /\ UNCHANGED dropped
    /\ Frame

\* fill_contiguous, not(feature = "buffered")
DoFillContiguous ==
    /\ Running /\ ~buffered
    /\ \E s \in FillSamples :
          /\ call' = [NoCall EXCEPT !.op = "fill_contiguous",
                                    !.a = <<s.area.x, s.area.y, s.area.w, s.area.h>>,
                                    !.cs = s.colors]
          /\ LET plan == FillContiguousPlan(display_size, display_rotation,
                                            s.area, s.colors)
             IN  \E f \in FailPoints(Count(plan)) :
                    /\ Wire(plan, f)
                    /\ outcome' = Unwrapped(f)
    /\ UNCHANGED <<buffer, dropped>>
    /\ Frame

\* rst.set_high(), rst.set_low() and delay.delay_ms(ms)
SetHigh == [do |-> "set_high", ms |-> 0]
SetLow == [do |-> "set_low", ms |-> 0]
DelayMs(ms) == [do |-> "delay_ms", ms |-> ms]

\* reset with the two delays exchanged
ResetStepsDelaysExchanged == <<SetHigh, DelayMs(10), SetLow, DelayMs(1), SetHigh>>

\* the steps of reset, none failing
ResetSteps == <<SetHigh, DelayMs(1), SetLow, DelayMs(10), SetHigh>>

\* the positions in steps of the pin drives, which can fail
PinDrives(steps) == {i \in 1..Len(steps) : steps[i].do # "delay_ms"}

\* reset: the pin drive at position p of the steps fails (p = 0: none fails)
\* and its error is returned with `?`
DoReset ==
    /\ Running
    /\ call' = [NoCall EXCEPT !.op = "reset"]
    /\ \E p \in {0} \cup PinDrives(ResetSteps) :
          /\ pin_log' = IF p = 0 THEN ResetSteps ELSE SubSeq(ResetSteps, 1, p)
          /\ outcome' = IF p = 0 THEN "Ok" ELSE "PinErr"
    /\ log' = <<>>
    /\ bus_failed' = FALSE
    /\ nOps' = nOps + 1
    /\ UNCHANGED <<buffer, dropped, remap, display_on>>
    /\ Frame

\* the caller takes the result of the operation that returned and goes on
CallerContinues ==
    /\ outcome # "Panic" /\ call # NoCall
    /\ call' = NoCall
    /\ log' = <<>>
    /\ bus_failed' = FALSE
    /\ outcome' = "Ok"
    /\ pin_log' = <<>>
    /\ UNCHANGED <<buffered, display_size, display_rotation, buffer, given_len,
                   dropped, remap, display_on, init_ok, nOps>>

Next ==
    \/ CallerContinues
    \/ DoInit
    \/ DoSetRotation
    \/ DoSetDrawArea
    \/ DoDisplayClear
    \/ DoGetDimensions
    \/ DoSetPixelUnbuffered
    \/ DoSetPixelBuffered
    \/ DoClearUnbuffered
    \/ DoClearBuffered
    \/ DoFlush
    \/ DoFlushArea
    \/ DoFlushChunk
    \/ DoGetBuffer
    \/ DoDropBuffer
    \/ DoDrawIter
    \/ DoFillContiguous
    \/ DoReset

Spec == Init /\ [][Next]_vars

----------------------------------------------------------------------------
(* Properties of the driver *)

\* the writes of a short log, one by one
RECURSIVE Flat(_)
Flat(l) ==
    IF l = <<>> THEN <<>>
    ELSE [i \in 1..Head(l).n |-> Head(l).w] \o Flat(Tail(l))

\* the names of the writes of a log, run by run
Names(l) == [i \in 1..Len(l) |-> l[i].w.name]

\* s is a prefix of t
IsPrefix(s, t) == Len(s) <= Len(t) /\ s = SubSeq(t, 1, Len(s))

PanelWidth == Dimensions(display_size)[1]
PanelHeight == Dimensions(display_size)[2]

\* C1: whichever bus write of init fails, init returns the transport error
\* (and the failing write is the last one it attempts).
InitReturnsEveryFailure ==
    (call.op = "init" /\ bus_failed) => outcome = "Err"

\* C2: a run of init in which every write succeeds issues the commands in one
\* fixed order: the two unlock commands, DisplayOn(false), ClockDiv,
\* MuxRatio(panel height - 1), DisplayOffset(0), StartLine(0), SetGpio,
\* FunctionSelect, SetVsl, Contrast, ContrastCurrent, PreCharge, PreCharge2,
\* Vcomh, Invert(false), the remap of the stored rotation, the clear (draw
\* area, then width x height zero writes), and DisplayOn(true) last.
InitOrder ==
    (call.op = "init" /\ outcome = "Ok") =>
        /\ Names(log) =
              <<"CommandLock", "CommandLock", "DisplayOn", "ClockDiv", "MuxRatio",
                "DisplayOffset", "StartLine", "SetGpio", "FunctionSelect", "SetVsl",
                "Contrast", "ContrastCurrent", "PreCharge", "PreCharge2", "Vcomh",
                "Invert", "SetRemap", "Column", "Row", "WriteRam", "Data",
                "DisplayOn">>
        /\ \A i \in 1..Len(log) : log[i].n = IF i = 21 THEN PanelWidth * PanelHeight ELSE 1
        /\ log[3].w.args = <<0>>
        /\ log[5].w.args = <<PanelHeight - 1>>
        /\ log[6].w.args = <<0>>
        /\ log[7].w.args = <<0>>
        /\ log[16].w.args = <<0>>
        /\ log[17].w.args =
              (CASE display_rotation = "Rotate0" -> <<0, 0, 1>>
                 [] display_rotation = "Rotate90" -> <<1, 1, 1>>
                 [] display_rotation = "Rotate180" -> <<0, 1, 0>>
                 [] display_rotation = "Rotate270" -> <<1, 0, 0>>)
        /\ log[21].w.bytes.len = 2 /\ At(log[21].w.bytes, 0) = 0
        /\ At(log[21].w.bytes, 1) = 0
        /\ log[22].w.args = <<1>>

InitOrderWitness ==
    /\ call.op = "init" /\ outcome = "Ok"
    /\ display_size = "Display128x96" /\ display_rotation = "Rotate270"
    /\ log[5].w.args = <<95>>

\* C3: after init returned Ok, and while no later init or set_rotation failed,
\* the last remap the controller received is the one of the stored rotation
\* and the last DisplayOn it received is DisplayOn(true).
ControllerMatchesStored ==
    init_ok =>
        /\ remap = (CASE display_rotation = "Rotate0" -> <<0, 0, 1>>
                      [] display_rotation = "Rotate90" -> <<1, 1, 1>>
                      [] display_rotation = "Rotate180" -> <<0, 1, 0>>
                      [] display_rotation = "Rotate270" -> <<1, 0, 0>>)
        /\ display_on = <<1>>

ControllerMatchesStoredWitness ==
    /\ init_ok /\ nOps = 3
    /\ call.op = "flush_area" /\ outcome = "Ok"
    /\ display_rotation = "Rotate180" /\ remap = <<0, 1, 0>>

\* C4 as claimed: the shadow buffer's length is always even and 2 x width x
\* height of the panel.
BufferLenIsPanel ==
    buffered => (buffer.len % 2 = 0 /\ buffer.len = 2 * PanelWidth * PanelHeight)

\* C4: the shadow buffer's length is the length of the buffer given to new
\* until drop_buffer is called, and 0 from then on.
BufferLenIsGivenOrDropped ==
    buffered => buffer.len = IF dropped THEN 0 ELSE given_len

BufferLenWitness ==
    /\ buffered /\ given_len = 2 * PanelWidth * PanelHeight
    /\ call.op = "drop_buffer" /\ buffer.len = 0 /\ nOps = 3

\* the Surface Layer operations that touch the bus
SurfaceBusOps ==
    {"clear", "set_pixel", "flush", "flush_area", "fill_contiguous", "draw_iter",
     "flush_chunk"}

\* C5 as claimed: a Surface Layer operation hands the first failing bus write
\* to its caller as an error.
SurfaceReturnsFailure ==
    (call.op \in SurfaceBusOps /\ bus_failed) => outcome = "Err"

\* C5: a Surface Layer operation panics on its first failing bus write, which
\* is the last write it attempts; it returns no error.
SurfacePanicsOnFailure ==
    call.op \in SurfaceBusOps =>
        /\ bus_failed => (outcome = "Panic" /\ log # <<>>)
        /\ outcome # "Err"

SurfacePanicsWitness ==
    /\ call.op = "flush_area" /\ bus_failed /\ outcome = "Panic"
    /\ Count(log) = 6

\* C6: the size the drawing adapter exposes is the logical size,
\* get_dimensions().
SizeIsLogical ==
    Size(display_size) = GetDimensions(display_size, display_rotation)

\* C7: set_pixel with x or y outside the display is a no-op: no bus write, no
\* change of the buffer, and it returns.
OutOfBoundsSetPixelIsNoop ==
    [][(/\ call'.op = "set_pixel"
        /\ \/ call'.a[1] >= GetDimensions(display_size, display_rotation)[1]
           \/ call'.a[2] >= GetDimensions(display_size, display_rotation)[2])
       => (log' = <<>> /\ buffer' = buffer /\ outcome' = "Ok")]_vars

\* buffered set_pixel(x, y, c) stored c, high byte first, at the offset of
\* pixel (x, y) and did nothing else
Stored(x, y, c) ==
    LET off == (y * PanelWidth + x) * 2
    IN  /\ outcome' = "Ok" /\ log' = <<>>
        /\ buffer'.len = buffer.len /\ buffer'.rest = buffer.rest
        /\ At(buffer', off) = c \div 256
        /\ At(buffer', off + 1) = c % 256
        /\ At(buffer', off) * 256 + At(buffer', off + 1) = c
        /\ \A i \in ((DOMAIN buffer.upd) \cup (DOMAIN buffer'.upd)) \ {off, off + 1} :
              At(buffer', i) = At(buffer, i)

\* C8 as claimed: buffered set_pixel(x, y, c) with (x, y) inside the panel
\* sets the two bytes at (y * panel width + x) * 2 to c, high byte first,
\* changes no other byte and writes nothing on the bus, under every rotation.
SetPixelStores ==
    [][(/\ buffered /\ call'.op = "set_pixel"
        /\ call'.a[1] < PanelWidth /\ call'.a[2] < PanelHeight)
       => Stored(call'.a[1], call'.a[2], call'.cs[1])]_vars

\* C8: the same, for a pixel whose two bytes lie within the buffer (every
\* pixel of the panel while the buffer has 2 x width x height bytes).
SetPixelStoresWithinBuffer ==
    [][(/\ buffered /\ call'.op = "set_pixel"
        /\ call'.a[1] < PanelWidth /\ call'.a[2] < PanelHeight
        /\ (call'.a[2] * PanelWidth + call'.a[1]) * 2 + 1 < buffer.len)
       => Stored(call'.a[1], call'.a[2], call'.cs[1])]_vars

SetPixelStoresWitness ==
    /\ buffered /\ call.op = "set_pixel" /\ outcome = "Ok"
    /\ call.a = <<10, 20>> /\ call.cs = <<63488>>
    /\ display_size = "Display128x128" /\ display_rotation = "Rotate90"
    /\ At(buffer, (20 * 128 + 10) * 2) = 248
    /\ At(buffer, (20 * 128 + 10) * 2 + 1) = 0

\* flush_area(R) issued, row by row from the top, one draw area on columns
\* R.x .. lastCol of the row followed by the 2 * R.w buffer bytes of the row,
\* and left the buffer as it was
FlushedRows(R, lastCol) ==
    /\ outcome' = "Ok" /\ buffer' = buffer
    /\ Len(log') = 4 * R.h
    /\ \A i \in 1..Len(log') : log'[i].n = 1
    /\ \A r \in 0..(R.h - 1) :
          /\ log'[4 * r + 1].w = Cmd("Column", <<R.x, lastCol>>)
          /\ log'[4 * r + 2].w = Cmd("Row", <<R.y + r, R.y + r>>)
          /\ log'[4 * r + 3].w = Cmd("WriteRam", <<>>)
          /\ log'[4 * r + 4].w.kind = "data"
          /\ log'[4 * r + 4].w.bytes.len = 2 * R.w
          /\ \A j \in 0..(2 * R.w - 1) :
                At(log'[4 * r + 4].w.bytes, j)
                   = At(buffer, ((R.y + r) * PanelWidth + R.x) * 2 + j)

InsidePanel(R) == R.x + R.w <= PanelWidth /\ R.y + R.h <= PanelHeight

\* C9 as claimed: for every R inside the panel, zero-sized ones included,
\* flush_area(R) issues R.h draw-area/write pairs in increasing row order,
\* the pair of row r covering columns R.x .. R.x + R.w - 1 of row r and
\* streaming the 2 * R.w bytes at (r * panel width + R.x) * 2; the buffer is
\* unchanged.
FlushAreaRows ==
    [][(/\ call'.op = "flush_area" /\ ~bus_failed'
        /\ InsidePanel(Rect(call'.a[1], call'.a[2], call'.a[3], call'.a[4])))
       => FlushedRows(Rect(call'.a[1], call'.a[2], call'.a[3], call'.a[4]),
                      call'.a[1] + call'.a[3] - 1)]_vars

\* C9: the same for R inside the panel whose rows lie within the buffer (every
\* such R while the buffer has 2 x width x height bytes); for a zero-width R
\* the draw area of each row is the single column R.x and no byte is streamed.
FlushAreaRowsWithinBuffer ==
    [][(/\ call'.op = "flush_area" /\ ~bus_failed'
        /\ InsidePanel(Rect(call'.a[1], call'.a[2], call'.a[3], call'.a[4]))
        /\ 2 * PanelWidth * PanelHeight <= buffer.len)
       => FlushedRows(Rect(call'.a[1], call'.a[2], call'.a[3], call'.a[4]),
                      IF call'.a[3] = 0 THEN call'.a[1]
                      ELSE call'.a[1] + call'.a[3] - 1)]_vars

FlushAreaRowsWitness ==
    /\ call.op = "flush_area" /\ outcome = "Ok" /\ call.a = <<9, 20, 2, 2>>
    /\ Len(log) = 8
    /\ AsSeq(log[4].w.bytes) = <<165, 165, 248, 0>>
    /\ AsSeq(log[8].w.bytes) = <<165, 165, 165, 165>>

\* C10: set_draw_area((sx, sy), (ex, ey)) sends Column(sx, ex - 1),
\* Row(sy, ey - 1), WriteRam in this order and nothing else, an end of 0
\* staying 0; when one of the three fails the later ones are not sent and
\* the error is returned.
SetDrawAreaEncoding ==
    call.op = "set_draw_area" =>
        LET sx == call.a[1]
            sy == call.a[2]
            ex == call.a[3]
            ey == call.a[4]
            all == <<Cmd("Column", <<sx, IF ex = 0 THEN 0 ELSE ex - 1>>),
                     Cmd("Row", <<sy, IF ey = 0 THEN 0 ELSE ey - 1>>),
                     Cmd("WriteRam", <<>>)>>
        IN  /\ IsPrefix(Flat(log), all)
            /\ ~bus_failed => (Flat(log) = all /\ outcome = "Ok")
            /\ bus_failed => (log # <<>> /\ outcome = "Err")

SetDrawAreaWitness ==
    /\ call.op = "set_draw_area" /\ outcome = "Ok"
    /\ call.a = <<10, 255, 0, 255>>
    /\ Flat(log)[1].args = <<10, 0>> /\ Flat(log)[2].args = <<255, 254>>

\* Display::clear ran to its end: on the Display, or through the unbuffered
\* GraphicsMode::clear
DisplayClearReturned ==
    /\ \/ call'.op = "display_clear"
       \/ call'.op = "clear" /\ ~buffered
    /\ ~bus_failed'

\* clear set the draw area from the origin to (w, h), wrote PanelWidth x
\* PanelHeight times two zero bytes and nothing else, and left the shadow
\* buffer, the stored size and the stored rotation as they were
ClearedTo(w, h) ==
    /\ outcome' = "Ok"
    /\ Len(log') = 4
    /\ log'[1] = [w |-> Cmd("Column", <<0, w - 1>>), n |-> 1]
    /\ log'[2] = [w |-> Cmd("Row", <<0, h - 1>>), n |-> 1]
    /\ log'[3] = [w |-> Cmd("WriteRam", <<>>), n |-> 1]
    /\ log'[4].n = PanelWidth * PanelHeight
    /\ log'[4].w.kind = "data"
    /\ AsSeq(log'[4].w.bytes) = <<0, 0>>
    /\ buffer' = buffer
    /\ display_size' = display_size
    /\ display_rotation' = display_rotation

\* C11 as claimed: for every panel size and rotation, Display::clear sets the
\* draw area from the origin to the rotation-adjusted width and height, then
\* issues width x height data writes of two zero bytes and nothing else; the
\* shadow buffer and the stored size and rotation are unchanged.
ClearLogicalRegion ==
    [][DisplayClearReturned
       => ClearedTo(GetDimensions(display_size, display_rotation)[1],
                    GetDimensions(display_size, display_rotation)[2])]_vars

\* C11: for every panel size and rotation, Display::clear sets the draw area
\* from the origin to the stored width and height of the panel, whatever the
\* rotation, then issues width x height data writes of two zero bytes and
\* nothing else; the shadow buffer and the stored size and rotation are
\* unchanged.
ClearPanelRegion ==
    [][DisplayClearReturned => ClearedTo(PanelWidth, PanelHeight)]_vars

ClearPanelRegionWitness ==
    /\ call.op = "display_clear" /\ outcome = "Ok"
    /\ display_size = "Display128x96" /\ display_rotation = "Rotate90"
    /\ log[1].w.args = <<0, 127>> /\ log[2].w.args = <<0, 95>>
    /\ log[4].n = 12288
    /\ buffered /\ buffer.len = 24576 /\ buffer.rest = 165

\* every byte of slice b is zero
AllZero(b) ==
    /\ \A i \in DOMAIN b.upd : i < b.len => b.upd[i] = 0
    /\ Cardinality(DOMAIN b.upd) < b.len => b.rest = 0

\* the buffered clear(flush) zeroed the buffer; without flush it wrote nothing
\* on the bus, with flush it set one draw area and streamed, as one data
\* write, len bytes that are all zero
ClearedAndFlushed(len) ==
    /\ AllZero(buffer)
    /\ call.a = <<0>> => log = <<>>
    /\ (call.a = <<1>> /\ ~bus_failed) =>
          /\ Names(log) = <<"Column", "Row", "WriteRam", "Data">>
          /\ \A i \in 1..Len(log) : log[i].n = 1
          /\ log[4].w.bytes.len = len
          /\ AllZero(log[4].w.bytes)

\* C12 as claimed: the buffered clear(flush) leaves every byte of the shadow
\* buffer zero; with flush = false it issues no bus write, with flush = true
\* it performs one full flush whose data is 2 x width x height zero bytes.
ClearFlushesPanelOfZeroes ==
    (buffered /\ call.op = "clear") =>
        ClearedAndFlushed(2 * PanelWidth * PanelHeight)

\* C12: the buffered clear(flush) leaves every byte of the shadow buffer
\* zero; with flush = false it issues no bus write, with flush = true it
\* performs one full flush whose data is the whole buffer, all zero: 2 x
\* width x height bytes until drop_buffer is called and no byte afterwards.
\* A failing bus write of the flush panics and is the last one attempted.
ClearFlushesBufferOfZeroes ==
    (buffered /\ call.op = "clear") =>
        /\ ClearedAndFlushed(IF dropped THEN 0 ELSE 2 * PanelWidth * PanelHeight)
        /\ outcome = IF bus_failed THEN "Panic" ELSE "Ok"
        /\ IsPrefix(Names(log), <<"Column", "Row", "WriteRam", "Data">>)

ClearFlushesWitness ==
    /\ buffered /\ call.op = "clear" /\ call.a = <<1>> /\ outcome = "Ok"
    /\ ~dropped /\ display_size = "Display128x128"
    /\ log[4].w.bytes.len = 32768 /\ buffer.len = 32768

\* flush set the draw area from the origin to (w, h), streamed the whole
\* shadow buffer as one data write and left the buffer as it was
FlushedTo(w, h) ==
    /\ outcome' = "Ok"
    /\ Len(log') = 4
    /\ log'[1] = [w |-> Cmd("Column", <<0, w - 1>>), n |-> 1]
    /\ log'[2] = [w |-> Cmd("Row", <<0, h - 1>>), n |-> 1]
    /\ log'[3] = [w |-> Cmd("WriteRam", <<>>), n |-> 1]
    /\ log'[4] = [w |-> Data(buffer), n |-> 1]
    /\ buffer' = buffer

\* C13 as claimed: for every panel size and rotation, flush sets the draw
\* area from the origin to get_dimensions() and then streams the entire
\* shadow buffer as exactly one data write; the buffer is unchanged.
FlushLogicalRegion ==
    [][(call'.op = "flush" /\ ~bus_failed')
       => FlushedTo(GetDimensions(display_size, display_rotation)[1],
                    GetDimensions(display_size, display_rotation)[2])]_vars

\* C13: for every panel size and rotation, flush sets the draw area from the
\* origin to the stored width and height of the panel, whatever the rotation,
\* and then streams the entire shadow buffer as exactly one data write; the
\* buffer is unchanged.
FlushPanelRegion ==
    [][(call'.op = "flush" /\ ~bus_failed')
       => FlushedTo(PanelWidth, PanelHeight)]_vars

FlushPanelRegionWitness ==
    /\ call.op = "flush" /\ outcome = "Ok"
    /\ display_size = "Display128x96" /\ display_rotation = "Rotate270"
    /\ log[1].w.args = <<0, 127>> /\ log[2].w.args = <<0, 95>>
    /\ log[4].w.bytes = buffer /\ buffer.len = 24576
    /\ At(buffer, (20 * 128 + 10) * 2) = 248

\* C14: set_rotation(r), for each of the four rotations, stores r and
\* attempts exactly one bus write, the remap command with the flags Rotate0
\* -> (false, false, true), Rotate90 -> (true, true, true), Rotate180 ->
\* (false, true, false), Rotate270 -> (true, false, false); the stored panel
\* size is unchanged, and the call returns Ok when the write succeeds.
SetRotationRemap ==
    [][call'.op = "set_rotation" =>
          /\ call'.rot \in {"Rotate0", "Rotate90", "Rotate180", "Rotate270"}
          /\ display_rotation' = call'.rot
          /\ display_size' = display_size
          /\ Len(log') = 1 /\ log'[1].n = 1
          /\ log'[1].w.kind = "cmd" /\ log'[1].w.name = "SetRemap"
          /\ log'[1].w.args =
                (CASE call'.rot = "Rotate0" -> <<0, 0, 1>>
                   [] call'.rot = "Rotate90" -> <<1, 1, 1>>
                   [] call'.rot = "Rotate180" -> <<0, 1, 0>>
                   [] call'.rot = "Rotate270" -> <<1, 0, 0>>)
          /\ ~bus_failed' => outcome' = "Ok"]_vars

SetRotationRemapWitness ==
    /\ call.op = "set_rotation" /\ call.rot = "Rotate270" /\ outcome = "Ok"
    /\ display_rotation = "Rotate270" /\ display_size = "Display128x96"
    /\ log = <<[w |-> Cmd("SetRemap", <<1, 0, 0>>), n |-> 1]>>
    /\ remap = <<1, 0, 0>>

\* C15: get_dimensions returns (width, height) of the panel at Rotate0 and
\* Rotate180 and (height, width) at Rotate90 and Rotate270, (96, 128) for the
\* 128x96 panel at 90 degrees; it writes nothing on the bus and changes
\* neither the stored size and rotation, nor the buffer, nor the controller.
\* set_rotation(r) stores r, so that a later get_dimensions reflects r.
GetDimensionsIsPure ==
    [][/\ call'.op = "get_dimensions" =>
             /\ call'.a =
                   (IF display_size = "Display128x128" THEN <<128, 128>>
                    ELSE IF display_rotation \in {"Rotate0", "Rotate180"}
                         THEN <<128, 96>>
                         ELSE <<96, 128>>)
             /\ call'.a = IF display_rotation \in {"Rotate0", "Rotate180"}
                          THEN <<PanelWidth, PanelHeight>>
                          ELSE <<PanelHeight, PanelWidth>>
             /\ log' = <<>> /\ outcome' = "Ok"
             /\ UNCHANGED <<display_size, display_rotation, buffer, remap,
                            display_on>>
       /\ call'.op = "set_rotation" => display_rotation' = call'.rot]_vars

GetDimensionsWitness ==
    /\ call.op = "get_dimensions" /\ call.a = <<96, 128>>
    /\ display_size = "Display128x96" /\ display_rotation = "Rotate90"
    /\ remap = <<1, 1, 1>> /\ nOps = 2

\* C16: reset drives the reset pin high, waits 1 ms, drives it low, waits
\* 10 ms and drives it high, in this order; a pin drive that fails is the last
\* thing reset does and reset returns its error; reset writes nothing on the
\* bus and changes neither the stored rotation and size, nor the shadow
\* buffer.
ResetPulse ==
    [][call'.op = "reset" =>
          LET pulse == <<[do |-> "set_high", ms |-> 0], [do |-> "delay_ms", ms |-> 1],
                         [do |-> "set_low", ms |-> 0], [do |-> "delay_ms", ms |-> 10],
                         [do |-> "set_high", ms |-> 0]>>
          IN  /\ outcome' \in {"Ok", "PinErr"}
              /\ outcome' = "Ok" => pin_log' = pulse
              /\ outcome' = "PinErr" =>
                    /\ pin_log' # <<>> /\ IsPrefix(pin_log', pulse)
                    /\ pin_log'[Len(pin_log')].do \in {"set_high", "set_low"}
              /\ log' = <<>> /\ ~bus_failed'
              /\ UNCHANGED <<display_rotation, display_size, buffer, remap,
                             display_on>>]_vars

ResetPulseWitness ==
    /\ call.op = "reset" /\ outcome = "PinErr" /\ Len(pin_log) = 3
    /\ pin_log[3].do = "set_low"
    /\ buffered /\ buffer.len = 32768 /\ At(buffer, (20 * 128 + 10) * 2) = 248

\* the colours cs as bytes on the wire, high byte first
RECURSIVE HighByteFirst(_)
HighByteFirst(cs) ==
    IF cs = <<>> THEN <<>>
    ELSE <<Head(cs) \div 256, Head(cs) % 256>> \o HighByteFirst(Tail(cs))

\* C17: every path that puts colours on the wire transmits each 16-bit colour
\* high byte first, whatever the byte order of the host: the data write of the
\* unbuffered set_pixel, the data writes of fill_contiguous, the data write of
\* flush_chunk for its chunk, and the bytes that flush and flush_area stream
\* from the buffer, stored there by set_pixel or through the view of
\* get_buffer.
ColorsHighByteFirst ==
    /\ (call.op = "set_pixel" /\ ~buffered /\ ~bus_failed) =>
          AsSeq(log[4].w.bytes) = HighByteFirst(call.cs)
    /\ (call.op = "set_pixel" /\ buffered /\ outcome = "Ok") =>
          <<At(buffer, PixelIndex(call.a[1], call.a[2])),
            At(buffer, PixelIndex(call.a[1], call.a[2]) + 1)>> = HighByteFirst(call.cs)
    /\ call.op = "fill_contiguous" =>
          \A i \in 4..Len(log) :
             \E j \in 1..Len(call.cs) :
                AsSeq(log[i].w.bytes) = HighByteFirst(<<call.cs[j]>>)
    /\ (call.op = "flush_chunk" /\ ~bus_failed) =>
          AsSeq(log[4].w.bytes) = HighByteFirst(call.cs)
    /\ (call.op = "get_buffer" /\ outcome = "Ok") =>
          <<At(buffer, 2 * (call.a[2] * PanelWidth + call.a[1])),
            At(buffer, 2 * (call.a[2] * PanelWidth + call.a[1]) + 1)>>
             = HighByteFirst(call.cs)

\* the members of the set S of integers, in increasing order
RECURSIVE Ascending(_)
Ascending(S) ==
    IF S = {} THEN <<>>
    ELSE LET m == CHOOSE x \in S : \A y \in S : x <= y
         IN  <<m>> \o Ascending(S \ {m})

\* fill_contiguous(area, colors) clipped to the box of w x h pixels at the
\* origin: one draw area for the points of area inside the box, its axes
\* exchanged at Rotate90 and Rotate270, then one data write of two bytes for
\* each point of area inside the box that has a colour, in the order of the
\* traversal of area, carrying that colour high byte first
FilledWithin(w, h) ==
    LET ax == call.a[1]
        ay == call.a[2]
        aw == call.a[3]
        ah == call.a[4]
        point(i) == <<ax + ((i - 1) % aw), ay + ((i - 1) \div aw)>>
        inside(i) == point(i)[1] < w /\ point(i)[2] < h
        all == {i \in 1..(aw * ah) : inside(i)}
        sent == Ascending({i \in all : i <= Len(call.cs)})
        xs == {point(i)[1] : i \in all}
        ys == {point(i)[2] : i \in all}
        lo(S) == CHOOSE v \in S : \A u \in S : v <= u
        hi(S) == CHOOSE v \in S : \A u \in S : v >= u
        writes == Flat(log)
        swap == display_rotation \in {"Rotate90", "Rotate270"}
    IN  /\ Len(writes) = 3 + Len(sent)
        /\ <<writes[1].name, writes[2].name, writes[3].name>>
              = <<"Column", "Row", "WriteRam">>
        /\ all # {} =>
              /\ writes[1].args = IF swap THEN <<lo(ys), hi(ys)>> ELSE <<lo(xs), hi(xs)>>
              /\ writes[2].args = IF swap THEN <<lo(xs), hi(xs)>> ELSE <<lo(ys), hi(ys)>>
        /\ \A k \in 1..Len(sent) :
              /\ writes[3 + k].kind = "data"
              /\ AsSeq(writes[3 + k].bytes) = HighByteFirst(<<call.cs[sent[k]]>>)

DrawAreaWellFormed ==
    (call.op = "draw_iter" /\ ~buffered) =>
        \A i \in 1..Len(log) :
           /\ log[i].w.name = "Column" =>
                 /\ log[i].w.args[1] <= log[i].w.args[2]
                 /\ log[i].w.args[2] = PanelWidth - 1
           /\ log[i].w.name = "Row" =>
                 /\ log[i].w.args[1] <= log[i].w.args[2]
                 /\ log[i].w.args[2] = PanelHeight - 1

\* C20: set_rotation(r) stores r before it sends the remap command: when the
\* send fails it returns the transport error, the controller keeps the remap
\* it had, and get_rotation and get_dimensions already give r and the
\* dimensions for r.
SetRotationStoresBeforeSend ==
    [][(call'.op = "set_rotation" /\ bus_failed') =>
          /\ outcome' = "Err"
          /\ remap' = remap
          /\ display_rotation' = call'.rot
          /\ GetDimensions(display_size', display_rotation')
                = IF call'.rot \in {"Rotate0", "Rotate180"}
                  THEN <<PanelWidth, PanelHeight>>
                  ELSE <<PanelHeight, PanelWidth>>]_vars

\* the stored rotation differs from the last remap the controller received
SetRotationStoresBeforeSendWitness ==
    /\ call.op = "set_rotation" /\ bus_failed /\ outcome = "Err"
    /\ call.rot = "Rotate90" /\ display_rotation = "Rotate90"
    /\ remap = <<0, 0, 1>> /\ display_size = "Display128x96"

====
